---- MODULE Spec2Model ----
(***************************************************************************)
(* State-machine model of the batch/record lifecycle manager of qrmaster   *)
(* (src/app.py): the relational store (Batch, QRRecord), the upload        *)
(* directory, and the request handlers that keep the two consistent.       *)
(*                                                                         *)
(* Strings are sequences of one-character strings, so that the storage     *)
(* name built by update_qr (f-string + secure_filename) is computed, not   *)
(* assumed.  A nullable column holds None or Some(value).                  *)
(***************************************************************************)
EXTENDS Integers, Sequences, FiniteSets, TLC

VARIABLES now, batches, records, files, last, inflight

vars == <<now, batches, records, files, last, inflight>>

----------------------------------------------------------------------------
(* Bounds of the model *)

\* Largest value of the epoch-second clock.
MaxClock == 2

\* Length above which create_qr_batch takes the bulk path.  The source uses
\* 1000 (src/app.py:164); the model scales it down so that both paths are
\* exercised by short inputs.
BulkThreshold == 2

----------------------------------------------------------------------------
(* Optional values and strings *)

None == <<>>

Some(x) == <<x>>

\* Python truthiness of an Optional[str]: None and "" are falsy.
Truthy(o) == o # None /\ o[1] # <<>>

Letters == {"a", "b", "c", "d", "t", "n", "x"}

DigitChar == <<"0", "1", "2", "3", "4", "5", "6", "7", "8", "9">>

DigitChars == {DigitChar[i] : i \in 1..10}

RECURSIVE Digits(_)
\* str(n) for a natural number n.
Digits(n) ==
    IF n < 10 THEN <<DigitChar[n + 1]>>
    ELSE Digits(n \div 10) \o <<DigitChar[(n % 10) + 1]>>

\* os.sep on POSIX (os.path.altsep is None).
Seps == {"/"}

Whitespace == {" "}

\* The complement of werkzeug's _filename_ascii_strip_re, [^A-Za-z0-9_.-].
IsAllowed(c) == c \in Letters \cup DigitChars \cup {"_", ".", "-"}

RECURSIVE LStrip(_, _)
LStrip(s, set) ==
    IF s # <<>> /\ Head(s) \in set THEN LStrip(Tail(s), set) ELSE s

RECURSIVE RStrip(_, _)
RStrip(s, set) ==
    IF s # <<>> /\ s[Len(s)] \in set
    THEN RStrip(SubSeq(s, 1, Len(s) - 1), set)
    ELSE s

Strip(s, set) == RStrip(LStrip(s, set), set)

\* filename.replace(sep, " ")
ReplaceSeps(s) == [i \in 1..Len(s) |-> IF s[i] \in Seps THEN " " ELSE s[i]]

RECURSIVE JoinRuns(_)
\* On a string with no leading or trailing whitespace: every run of
\* whitespace becomes one "_".
JoinRuns(s) ==
    IF s = <<>> THEN <<>>
    ELSE IF Head(s) \in Whitespace
         THEN <<"_">> \o JoinRuns(LStrip(s, Whitespace))
         ELSE <<Head(s)>> \o JoinRuns(Tail(s))

\* "_".join(filename.split())
SplitJoin(s) == JoinRuns(Strip(s, Whitespace))

\* werkzeug.utils.secure_filename on ASCII input on POSIX.
SecureFilename(s) ==
    Strip(SelectSeq(SplitJoin(ReplaceSeps(s)), IsAllowed), {".", "_"})

\* f"{id}_{int(time.time())}_{file.filename}"
RawName(id, ts, fname) == id \o <<"_">> \o Digits(ts) \o <<"_">> \o fname

\* The storage name update_qr gives an upload.
StorageName(id, ts, fname) == SecureFilename(RawName(id, ts, fname))

----------------------------------------------------------------------------
(* Input domains *)

\* Record ids callers use.  "a_1" contains the separator of the storage name.
IDs == {<<"a">>, <<"a", "_", "1">>}

\* Record ids of the insertion-focused specification.
InsIDs == {<<"a">>, <<"b">>, <<"c">>}

\* Ids a new batch may get (uuid4 in the source).
BatchIds == {<<"p">>, <<"q">>}

\* Names a caller may give a new batch: missing, blank, or a real name.
BatchNames == {None, Some(<<" ">>), Some(<<"x">>)}

CreatedAts == {100, 200}

\* Original file names of uploads.
FileNames == {<<"b">>, <<"1", " ", "b">>}

\* The 'file' part of an update request: absent, present with an empty
\* filename (no file chosen), or a named upload.
FileParts(names) == {None, Some(<<>>)} \cup {Some(n) : n \in names}

Titles == {None, Some(<<"t">>)}

Notes == {None, Some(<<"n">>)}

\* The removeFile form field.
RemoveFlags == {None, Some(<<"t", "r", "u", "e">>), Some(<<"f", "a", "l", "s", "e">>)}

Item(id, b, c) == [id |-> id, batchId |-> b, createdAt |-> c]

Items(ids, bs, cs) == {Item(id, b, c) : id \in ids, b \in bs, c \in cs}

\* All sequences over S of length 0..n.
SeqsUpTo(S, n) == UNION {[1..k -> S] : k \in 0..n}

----------------------------------------------------------------------------
(* The store *)

\* A QRRecord row as create_qr_batch makes it: all report columns NULL.
NewRecord(item) ==
    [batch_id |-> item.batchId, created_at |-> item.createdAt,
     report_title |-> None, report_note |-> None,
     report_file |-> None, file_name |-> None]

Restrict(f, S) == [x \in S |-> f[x]]

EmptyTable == [x \in {} |-> x]

\* What the last request was and how it ended: the handler, the HTTP
\* status, what the request addressed (a record id, a set of ids, a batch
\* id, the length of a creation payload), the file part and the remove flag
\* of an update, the count in the response body, and what the handler found
\* when it started (the report_file of the loaded row, or the stored names
\* its cleanup loop visits).
Resp(op, status, target, file, remove, count, prior) ==
    [op |-> op, status |-> status, target |-> target, file |-> file,
     remove |-> remove, count |-> count, prior |-> prior]

\* The workers that serve requests in steps (one thread per request).
Workers == {1, 2}

\* A worker with no request: the locals of a handler in progress are the
\* handler (op), its position (pc), the id of the URL (id: a record or a
\* batch), the ids of the body, the upload's file name, the row as the
\* session loaded it, the storage name of the saved upload, the stored
\* names the cleanup query found, those the loop has visited, and the HTTP
\* status once the handler has returned.
Idle ==
    [op |-> "idle", pc |-> "idle", id |-> <<>>, ids |-> {}, file |-> None,
     loaded |-> None, name |-> None, found |-> {}, attempted |-> {},
     status |-> 0]

\* db.create_all() on an empty database, an empty upload directory, no
\* request in progress.
Init ==
    /\ now = 1
    /\ batches = EmptyTable
    /\ records = EmptyTable
    /\ files = {}
    /\ last = Resp("init", 0, None, None, FALSE, None, None)
    /\ inflight = [w \in Workers |-> Idle]

\* A unit of work whose failure is not rolled back.
OutcomeKeepsChanges(before, after, ok) == after

\* The outcome of a unit of work: its changes on commit, the rows as they
\* were when it raised (the session is rolled back or discarded at teardown).
Outcome(before, after, ok) == IF ok THEN after ELSE before

\* Time passes.
Tick ==
    /\ now < MaxClock
    /\ now' = now + 1
    /\ UNCHANGED <<batches, records, files, last, inflight>>

----------------------------------------------------------------------------
(* Reads *)

\* All orders of the ids in S with created_at descending (rows with equal
\* created_at come in an order the database chooses).
DescOrders(table, S) ==
    {q \in [1..Cardinality(S) -> S] :
        /\ \A i, j \in 1..Cardinality(S) : i # j => q[i] # q[j]
        /\ \A i, j \in 1..Cardinality(S) :
              i < j => table[q[i]].created_at >= table[q[j]].created_at}

\* GET /api/qrs: the id sequences the listing may return.  batch_id is the
\* optional query parameter.
GetQrs(batch_id) ==
    DescOrders(records,
               IF Truthy(batch_id)
               THEN {id \in DOMAIN records : records[id].batch_id = batch_id[1]}
               ELSE DOMAIN records)

\* GET /api/qrs/<id>
GetQr(id) == IF id \in DOMAIN records THEN Some(records[id]) ELSE None

\* qrCount of a batch in GET /api/folders.
QrCount(b) == Cardinality({id \in DOMAIN records : records[id].batch_id = b})

\* GET /api/folders: the batch-id sequences the listing may return.
GetFolders == DescOrders(batches, DOMAIN batches)

----------------------------------------------------------------------------
(* Batches *)

\* strftime of the creation time; the model keeps only that it is a
\* non-empty text determined by the creation second.
DefaultName(created_at) == <<"d">> \o Digits(created_at \div 1000)

\* POST /api/folders
CreateFolder(b, name, dbOk) ==
    LET created_at == now * 1000
        given == Truthy(name) /\ Strip(name[1], Whitespace) # <<>>
        row == [name |-> IF given THEN name[1] ELSE DefaultName(created_at),
                created_at |-> created_at]
    IN /\ b \notin DOMAIN batches
       /\ batches' = Outcome(batches, batches @@ (b :> row), dbOk)
       /\ last' = Resp("create_folder", IF dbOk THEN 201 ELSE 500,
                       b, None, FALSE, None, None)
       /\ UNCHANGED <<now, records, files>>

----------------------------------------------------------------------------
(* Bulk record creation *)

RECURSIVE InsertRows(_, _)
\* The flush of the row-by-row path: one INSERT per added object, in order;
\* the first primary-key conflict raises.
InsertRows(table, items) ==
    IF items = <<>> THEN [ok |-> TRUE, table |-> table]
    ELSE IF Head(items).id \in DOMAIN table
         THEN [ok |-> FALSE, table |-> table]
         ELSE InsertRows(table @@ (Head(items).id :> NewRecord(Head(items))),
                         Tail(items))

\* A bulk insert that lets a repeated id of the payload through.
BulkInsertCollapsesRepeats(table, items) ==
    LET ids == {items[i].id : i \in 1..Len(items)}
    IN IF ids \cap DOMAIN table # {}
       THEN [ok |-> FALSE, table |-> table]
       ELSE [ok |-> TRUE,
             table |-> [id \in DOMAIN table \cup ids |->
                          IF id \in DOMAIN table THEN table[id]
                          ELSE NewRecord(CHOOSE it \in {items[i] : i \in 1..Len(items)} :
                                           it.id = id)]]

\* bulk_insert_mappings: one set-oriented INSERT of all the mappings.
BulkInsert(table, items) ==
    LET ids == {items[i].id : i \in 1..Len(items)}
    IN IF Cardinality(ids) < Len(items) \/ ids \cap DOMAIN table # {}
       THEN [ok |-> FALSE, table |-> table]
       ELSE [ok |-> TRUE,
             table |-> [id \in DOMAIN table \cup ids |->
                          IF id \in DOMAIN table THEN table[id]
                          ELSE NewRecord(CHOOSE it \in {items[i] : i \in 1..Len(items)} :
                                           it.id = id)]]

\* The strategy split of create_qr_batch.
UsesBulkPath(items) == Len(items) > BulkThreshold

\* create_qr_batch on a non-empty payload: the insertion by the path the
\* length selects, then the commit.  The rows afterwards and whether the
\* request succeeded.
CreateOutcome(items, dbOk) ==
    LET txn == IF UsesBulkPath(items) THEN BulkInsert(records, items)
               ELSE InsertRows(records, items)
        ok == txn.ok /\ dbOk
    IN [ok |-> ok, records |-> Outcome(records, txn.table, ok)]

\* POST /api/qrs/batch
CreateQrBatch(items, dbOk) ==
    IF items = <<>>
    THEN /\ last' = Resp("create_qr_batch", 400, 0, None, FALSE, None, None)
         /\ UNCHANGED <<now, batches, records, files>>
    ELSE LET out == CreateOutcome(items, dbOk)
         IN /\ records' = out.records
            /\ last' = Resp("create_qr_batch", IF out.ok THEN 201 ELSE 500,
                            Len(items), None, FALSE,
                            IF out.ok THEN Some(Len(items)) ELSE None, None)
            /\ UNCHANGED <<now, batches, files>>

----------------------------------------------------------------------------
(* Files *)

\* os.path.exists(path) followed by os.remove(path), outside any try block.
\* locked is the set of stored files whose removal raises.  The result is
\* the directory afterwards and whether the call returned normally.
RemoveIfExists(fs, name, locked) ==
    IF name \notin fs THEN [fs |-> fs, ok |-> TRUE]
    ELSE IF name \in locked THEN [fs |-> fs, ok |-> FALSE]
    ELSE [fs |-> fs \ {name}, ok |-> TRUE]

\* A cleanup loop that removes nothing.
RemoveNothing(fs, names, locked) == fs

\* The cleanup loop of the delete handlers: each removal in its own
\* try/except, a failure is ignored.
RemoveBestEffort(fs, names, locked) == fs \ (names \ locked)

\* request.form.get('removeFile') == 'true'
RemoveRequested(removeFile) == removeFile = Some(<<"t", "r", "u", "e">>)

\* A removal that forgets the title and the note.
ClearAttachmentOnly(r) == [r EXCEPT !.report_file = None, !.file_name = None]

\* The four report columns set to NULL.
ClearReport(r) ==
    [r EXCEPT !.report_file = None, !.file_name = None,
              !.report_title = None, !.report_note = None]

----------------------------------------------------------------------------
(* Single-record update *)

\* StorageName, tabulated over the inputs of the specifications.
StoredAs ==
    [id \in IDs, ts \in 1..(MaxClock + 1), fname \in FileNames |->
        StorageName(id, ts, fname)]

\* A handler in progress: the loaded row as the session sees it, the upload
\* directory, and whether an exception has been raised.
Ctx(r, fs, ok) == [rec |-> r, fs |-> fs, ok |-> ok]

\* update_qr, the file part: save the upload, remove the prior file, point
\* the row at the new one.
AttachStep(c, id, file, saveOk, locked) ==
    IF ~(file # None /\ file[1] # <<>>) THEN c
    ELSE IF ~saveOk THEN Ctx(c.rec, c.fs, FALSE)
    ELSE LET filename == StoredAs[id, now, file[1]]
             saved == c.fs \cup {filename}
             rm == IF Truthy(c.rec.report_file)
                   THEN RemoveIfExists(saved, c.rec.report_file[1], locked)
                   ELSE [fs |-> saved, ok |-> TRUE]
         IN IF rm.ok
            THEN Ctx([c.rec EXCEPT !.report_file = Some(filename),
                                   !.file_name = file],
                     rm.fs, TRUE)
            ELSE Ctx(c.rec, rm.fs, FALSE)

\* A field step that writes the title and the note whether or not the form
\* carries them.
FieldsStepWritesAbsent(c, title, note) ==
    IF ~c.ok THEN c
    ELSE Ctx([c.rec EXCEPT !.report_title = title, !.report_note = note],
             c.fs, TRUE)

\* update_qr, the title and the note.
FieldsStep(c, title, note) ==
    IF ~c.ok THEN c
    ELSE Ctx([c.rec EXCEPT
                !.report_title = IF title # None THEN title ELSE @,
                !.report_note = IF note # None THEN note ELSE @],
             c.fs, TRUE)

\* A removeFile step that clears the row and leaves the file on disk.
RemoveStepKeepsFile(c, removeFile, locked) ==
    IF ~c.ok \/ ~RemoveRequested(removeFile) THEN c
    ELSE Ctx(ClearReport(c.rec), c.fs, TRUE)

\* update_qr, the removeFile flag.
RemoveStep(c, removeFile, locked) ==
    IF ~c.ok \/ ~RemoveRequested(removeFile) THEN c
    ELSE LET rm == IF Truthy(c.rec.report_file)
                   THEN RemoveIfExists(c.fs, c.rec.report_file[1], locked)
                   ELSE [fs |-> c.fs, ok |-> TRUE]
         IN IF rm.ok THEN Ctx(ClearReport(c.rec), rm.fs, TRUE)
            ELSE Ctx(c.rec, rm.fs, FALSE)

\* An update that saves the upload before it looks the row up.
UpdateMissingSavesUpload(id, file, removeFile) ==
    /\ last' = Resp("update_qr", 404, id, file, RemoveRequested(removeFile),
                    None, None)
    /\ files' = IF Truthy(file) THEN files \cup {StoredAs[id, now, file[1]]}
                ELSE files
    /\ UNCHANGED <<now, batches, records>>

\* update_qr when the row does not exist: 404 before anything else.
UpdateMissing(id, file, removeFile) ==
    /\ last' = Resp("update_qr", 404, id, file, RemoveRequested(removeFile),
                    None, None)
    /\ UNCHANGED <<now, batches, records, files>>

\* update_qr on the loaded row: the three steps, then the commit.
UpdateFound(id, file, title, note, removeFile, saveOk, locked, dbOk) ==
    LET c0 == Ctx(records[id], files, TRUE)
        c1 == AttachStep(c0, id, file, saveOk, locked)
        c2 == FieldsStep(c1, title, note)
        c == RemoveStep(c2, removeFile, locked)
        ok == c.ok /\ dbOk
    IN /\ files' = c.fs
       /\ records' = Outcome(records, [records EXCEPT ![id] = c.rec], ok)
       /\ last' = Resp("update_qr", IF ok THEN 200 ELSE 500, id, file,
                       RemoveRequested(removeFile), None,
                       records[id].report_file)
       /\ UNCHANGED <<now, batches>>

\* PUT /api/qrs/<id>
UpdateQr(id, file, title, note, removeFile, saveOk, locked, dbOk) ==
    IF id \notin DOMAIN records
    THEN UpdateMissing(id, file, removeFile)
    ELSE UpdateFound(id, file, title, note, removeFile, saveOk, locked, dbOk)

----------------------------------------------------------------------------
(* Report-only deletion *)

\* DELETE /api/qrs/<id>/report
DeleteReport(id, locked, dbOk) ==
    IF id \notin DOMAIN records
    THEN /\ last' = Resp("delete_report", 404, id, None, FALSE, None, None)
         /\ UNCHANGED <<now, batches, records, files>>
    ELSE LET rm == IF Truthy(records[id].report_file)
                   THEN RemoveIfExists(files, records[id].report_file[1], locked)
                   ELSE [fs |-> files, ok |-> TRUE]
             ok == rm.ok /\ dbOk
         IN /\ files' = rm.fs
            /\ records' = Outcome(records,
                                  [records EXCEPT ![id] = ClearReport(@)], ok)
            /\ last' = Resp("delete_report", IF ok THEN 200 ELSE 500, id,
                            None, FALSE, None, records[id].report_file)
            /\ UNCHANGED <<now, batches>>

----------------------------------------------------------------------------
(* Bulk deletion *)

\* The stored names of the rows in S that have report_file IS NOT NULL.
OwnedFiles(S) ==
    {records[id].report_file[1] :
        id \in {i \in S \cap DOMAIN records : records[i].report_file # None}}

\* The deleted_count of the response to a bulk delete that removed the rows
\* of `removed`: the handler's final jsonify carries no count.
DeletedCount(removed) == None

\* A bulk delete with no short cut.
NoIdsNever(ids) == FALSE

\* `if not ids`
NoIds(ids) == ids = {}

\* POST /api/qrs/bulk-delete
DeleteRecords(ids, locked, dbOk) ==
    IF NoIds(ids)
    THEN /\ last' = Resp("delete_records", 200, ids, None, FALSE, Some(0), {})
         /\ UNCHANGED <<now, batches, records, files>>
    ELSE /\ files' = RemoveBestEffort(files, OwnedFiles(ids), locked)
         /\ records' = Outcome(records,
                               Restrict(records, DOMAIN records \ ids), dbOk)
         /\ last' = Resp("delete_records", IF dbOk THEN 200 ELSE 500, ids,
                         None, FALSE,
                         IF dbOk THEN DeletedCount(DOMAIN records \cap ids)
                         ELSE None,
                         OwnedFiles(ids))
         /\ UNCHANGED <<now, batches>>

\* The ids of the rows of a batch.
RecordsOf(b) == {id \in DOMAIN records : records[id].batch_id = b}

\* The points at which the database unit of delete_folder can raise: the
\* DELETE of the rows, the DELETE of the batch, the commit.
FolderFailPoints == {"records", "batch", "commit"}

\* A rollback that keeps what the session had already executed.
RollbackKeepsPending(committed, pending) == pending

\* db.session.rollback(): the tables as last committed.
Rollback(committed, pending) == committed

\* The database unit of delete_folder: the rows of the batch are deleted,
\* then the batch row, then the commit; an exception at failAt ("none":
\* no exception) is caught and the session rolled back.
DeleteFolderUnit(b, failAt) ==
    LET before == [records |-> records, batches |-> batches]
        s1 == [records |-> Restrict(records, DOMAIN records \ RecordsOf(b)),
               batches |-> batches]
        s2 == [records |-> s1.records,
               batches |-> Restrict(batches, DOMAIN batches \ {b})]
        pending == IF failAt = "records" THEN before
                   ELSE IF failAt = "batch" THEN s1
                   ELSE s2
    IN IF failAt = "none" THEN [ok |-> TRUE, db |-> s2]
       ELSE [ok |-> FALSE, db |-> Rollback(before, pending)]

\* DELETE /api/folders/<batch_id>, with the point at which its database
\* unit raises.
DeleteFolderAt(b, locked, failAt) ==
    LET unit == DeleteFolderUnit(b, failAt)
    IN /\ files' = RemoveBestEffort(files, OwnedFiles(RecordsOf(b)), locked)
       /\ records' = unit.db.records
       /\ batches' = unit.db.batches
       /\ last' = Resp("delete_folder", IF unit.ok THEN 200 ELSE 500, b, None,
                       FALSE, None, OwnedFiles(RecordsOf(b)))
       /\ UNCHANGED now

\* DELETE /api/folders/<batch_id>
DeleteFolder(b, locked, dbOk) ==
    DeleteFolderAt(b, locked, IF dbOk THEN "none" ELSE "commit")

----------------------------------------------------------------------------
(* The system: requests arrive one at a time, with any payload.  A request *)
(* may meet one fault of the environment: the upload cannot be saved, the  *)
(* stored files cannot be removed, or the commit fails.                    *)

Faults == {"none", "save", "remove", "commit"}

SaveOk(fault) == fault # "save"

Locked(fault) == IF fault = "remove" THEN files ELSE {}

DbOk(fault) == fault # "commit"

\* Where the database unit of delete_folder fails under a fault.
DbFail(fault) == IF fault \in FolderFailPoints THEN fault ELSE "none"

NextCreateFolder(bids, names, faults) ==
    \E b \in bids, name \in names, fault \in faults :
        CreateFolder(b, name, DbOk(fault)) /\ UNCHANGED inflight

NextCreateQrBatch(inputs, faults) ==
    \E items \in inputs, fault \in faults :
        CreateQrBatch(items, DbOk(fault)) /\ UNCHANGED inflight

NextUpdateQr(ids, parts, titles, notes, flags, faults) ==
    \E id \in ids, file \in parts, title \in titles,
       note \in notes, removeFile \in flags, fault \in faults :
        /\ UpdateQr(id, file, title, note, removeFile,
                    SaveOk(fault), Locked(fault), DbOk(fault))
        /\ UNCHANGED inflight

NextDeleteReport(ids, faults) ==
    \E id \in ids, fault \in faults :
        DeleteReport(id, Locked(fault), DbOk(fault)) /\ UNCHANGED inflight

NextDeleteRecords(ids, faults) ==
    \E S \in SUBSET ids, fault \in faults :
        DeleteRecords(S, Locked(fault), DbOk(fault)) /\ UNCHANGED inflight

NextDeleteFolder(bids, faults) ==
    \E b \in bids, fault \in faults :
        DeleteFolderAt(b, Locked(fault), DbFail(fault)) /\ UNCHANGED inflight

\* Requests one at a time, no fault.  Record "a" takes every payload of an
\* update; "a_1" is created and deleted beside it.  Batch "p" can exist,
\* batch "q" is only ever named.
CreateInputs == SeqsUpTo(Items(IDs, BatchIds, {100}), 2)

UpdateIds == {<<"a">>}

Next ==
    \/ Tick
    \/ NextCreateFolder({<<"p">>}, {None}, {"none"})
    \/ NextCreateQrBatch(CreateInputs, {"none"})
    \/ NextUpdateQr(UpdateIds, FileParts(FileNames), Titles, Notes,
                    RemoveFlags, {"none"})
    \/ NextDeleteReport(UpdateIds, {"none"})
    \/ NextDeleteRecords(IDs, {"none"})
    \/ NextDeleteFolder(BatchIds, {"none"})

Spec == Init /\ [][Next]_vars

\* Requests with faults, all within one second of the clock, on both
\* records: "a" of batch "p" and "a_1" of batch "q".  Updates carry one of
\* two files or the remove flag, no title and no note.
FaultInputs ==
    SeqsUpTo({Item(<<"a">>, <<"p">>, 100), Item(<<"a", "_", "1">>, <<"q">>, 100)}, 2)

FaultParts == {None} \cup {Some(n) : n \in FileNames}

FaultFlags == {None, Some(<<"t", "r", "u", "e">>)}

NextFaults ==
    \/ NextCreateFolder({<<"p">>}, {None}, {"none", "commit"})
    \/ NextCreateQrBatch(FaultInputs, {"none", "commit"})
    \/ NextUpdateQr(IDs, FaultParts, {None}, {None}, FaultFlags, Faults)
    \/ NextDeleteReport(IDs, {"none", "remove", "commit"})
    \/ NextDeleteRecords(IDs, {"none", "remove", "commit"})
    \/ NextDeleteFolder(BatchIds, {"none", "remove"} \cup FolderFailPoints)

SpecFaults == Init /\ [][NextFaults]_vars

\* One record and its report under faults: every payload of an update.
ReportInputs == SeqsUpTo({Item(<<"a">>, <<"p">>, 100)}, 1)

NextReport ==
    \/ Tick
    \/ NextCreateQrBatch(ReportInputs, {"none"})
    \/ NextUpdateQr(UpdateIds, FileParts({<<"b">>}), Titles, Notes,
                    RemoveFlags, Faults)
    \/ NextDeleteReport(UpdateIds, {"none", "remove", "commit"})
    \/ NextDeleteRecords(UpdateIds, {"none", "remove", "commit"})

SpecReport == Init /\ [][NextReport]_vars

\* Insertion and listing: three record ids, both insertion paths, equal and
\* different creation times.
InsInputs ==
    SeqsUpTo(Items(InsIDs, {<<"p">>}, CreatedAts), BulkThreshold + 1)
      \cup SeqsUpTo(Items(InsIDs, {<<"q">>}, CreatedAts), BulkThreshold + 1)

NextIns ==
    \/ NextCreateFolder({<<"p">>}, BatchNames, {"none"})
    \/ NextCreateQrBatch(InsInputs, {"none"})
    \/ NextDeleteRecords(InsIDs, {"none"})
    \/ NextDeleteFolder(BatchIds, {"none"})

SpecIns == Init /\ [][NextIns]_vars

----------------------------------------------------------------------------
(* Requests in steps: each request is served by its own worker, and the    *)
(* reads and writes of the database and of the upload directory that a     *)
(* handler makes are separate steps, interleaved with the steps of the     *)
(* other worker.  Requests that arrive together are served concurrently;  *)
(* a worker serves one request.                                            *)

\* A request as its worker receives it, before the first statement of the
\* handler.
Request(op, id, ids, file) ==
    [Idle EXCEPT !.op = op, !.pc = "begin", !.id = id, !.ids = ids,
                 !.file = file]

\* No request is being served and none has been.
Quiet == \A w \in Workers : inflight[w].pc = "idle"

\* Requests arrive together, one for each of some workers; each is served
\* by its own thread from then on.
Arrive(reqs) ==
    /\ Quiet
    /\ inflight' = reqs
    /\ UNCHANGED <<now, batches, records, files, last>>

\* The locals of worker w after a change.
Locals(w, l) == [inflight EXCEPT ![w] = l]

\* update_qr, `record = QRRecord.query.get(id)`: 404 when there is no row,
\* else the session holds the row as it is now.
BeginUpdate(w) ==
    LET l == inflight[w]
    IN /\ l.pc = "begin"
       /\ l.op = "update_qr"
       /\ inflight' =
             Locals(w, IF l.id \notin DOMAIN records
                       THEN [l EXCEPT !.pc = "done", !.status = 404]
                       ELSE [l EXCEPT !.pc = "save",
                                      !.loaded = Some(records[l.id])])
       /\ UNCHANGED <<now, batches, records, files, last>>

\* update_qr, `file.save(file_path)` under the name built from the clock.
SaveUpload(w) ==
    LET l == inflight[w]
        filename == StoredAs[l.id, now, l.file[1]]
    IN /\ l.pc = "save"
       /\ files' = files \cup {filename}
       /\ inflight' =
             Locals(w, [l EXCEPT !.name = Some(filename),
                                 !.pc = IF Truthy(l.loaded[1].report_file)
                                        THEN "exists" ELSE "commit"])
       /\ UNCHANGED <<now, batches, records, last>>

\* update_qr, `if os.path.exists(old_path)` on the file the loaded row names.
CheckOld(w) ==
    LET l == inflight[w]
    IN /\ l.pc = "exists"
       /\ inflight' =
             Locals(w, [l EXCEPT !.pc = IF l.loaded[1].report_file[1] \in files
                                        THEN "remove" ELSE "commit"])
       /\ UNCHANGED <<now, batches, records, files, last>>

\* update_qr, `os.remove(old_path)`: FileNotFoundError, which nothing
\* catches (HTTP 500), when the file has gone since the check.
RemoveOld(w) ==
    LET l == inflight[w]
        old == l.loaded[1].report_file[1]
    IN /\ l.pc = "remove"
       /\ IF old \in files
          THEN /\ files' = files \ {old}
               /\ inflight' = Locals(w, [l EXCEPT !.pc = "commit"])
          ELSE /\ files' = files
               /\ inflight' = Locals(w, [l EXCEPT !.pc = "done", !.status = 500])
       /\ UNCHANGED <<now, batches, records, last>>

\* update_qr, the assignments to the loaded object and `db.session.commit()`:
\* the flush writes the columns whose value differs from the loaded one, in
\* an UPDATE by primary key; when that matches no row the ORM raises
\* StaleDataError (HTTP 500).
CommitUpdate(w) ==
    LET l == inflight[w]
        was == l.loaded[1]
        dirty == l.name # was.report_file \/ l.file # was.file_name
    IN /\ l.pc = "commit"
       /\ IF ~dirty
          THEN /\ records' = records
               /\ inflight' = Locals(w, [l EXCEPT !.pc = "done", !.status = 200])
          ELSE IF l.id \notin DOMAIN records
          THEN /\ records' = records
               /\ inflight' = Locals(w, [l EXCEPT !.pc = "done", !.status = 500])
          ELSE /\ records' =
                     [records EXCEPT
                         ![l.id].report_file =
                             IF l.name # was.report_file THEN l.name ELSE @,
                         ![l.id].file_name =
                             IF l.file # was.file_name THEN l.file ELSE @]
               /\ inflight' = Locals(w, [l EXCEPT !.pc = "done", !.status = 200])
       /\ UNCHANGED <<now, batches, files, last>>

\* delete_records, the empty-ids short cut or the query for the rows with
\* a file.
BeginDeleteRecords(w) ==
    LET l == inflight[w]
    IN /\ l.pc = "begin"
       /\ l.op = "delete_records"
       /\ inflight' =
             Locals(w, IF NoIds(l.ids)
                       THEN [l EXCEPT !.pc = "done", !.status = 200]
                       ELSE [l EXCEPT !.pc = "cleanup",
                                      !.found = OwnedFiles(l.ids)])
       /\ UNCHANGED <<now, batches, records, files, last>>

\* delete_folder, the query for the rows of the batch with a file.
BeginDeleteFolder(w) ==
    LET l == inflight[w]
    IN /\ l.pc = "begin"
       /\ l.op = "delete_folder"
       /\ inflight' =
             Locals(w, [l EXCEPT !.pc = "cleanup",
                                 !.found = OwnedFiles(RecordsOf(l.id))])
       /\ UNCHANGED <<now, batches, records, files, last>>

\* One turn of the cleanup loop of a delete handler: exists + remove inside
\* try/except pass, on one of the files found (in the order of the query,
\* which is any).  The removal may fail; the loop goes on.
AttemptRemove(w, f, fails) ==
    LET l == inflight[w]
    IN /\ l.pc = "cleanup"
       /\ f \in l.found \ l.attempted
       /\ files' = IF fails THEN files ELSE files \ {f}
       /\ inflight' = Locals(w, [l EXCEPT !.attempted = @ \cup {f}])
       /\ UNCHANGED <<now, batches, records, last>>

\* A delete handler that may run its DELETE before the cleanup loop ends.
CleanupNotAwaited(l) == TRUE

\* The cleanup loop of a delete handler has ended.
CleanupDone(l) == l.found \subseteq l.attempted

\* The DELETE statement(s) of a delete handler and the commit, after the
\* cleanup loop.
DbDelete(w) ==
    LET l == inflight[w]
    IN /\ l.pc = "cleanup"
       /\ CleanupDone(l)
       /\ IF l.op = "delete_records"
          THEN /\ records' = Restrict(records, DOMAIN records \ l.ids)
               /\ batches' = batches
          ELSE /\ records' = Restrict(records, DOMAIN records \ RecordsOf(l.id))
               /\ batches' = Restrict(batches, DOMAIN batches \ {l.id})
       /\ inflight' = Locals(w, [l EXCEPT !.pc = "done", !.status = 200])
       /\ UNCHANGED <<now, files, last>>

\* The rows the workers find: "a" and "a_1" of batch "p", each with or
\* without a file attached earlier.
StepInputs ==
    SeqsUpTo({Item(<<"a">>, <<"p">>, 100), Item(<<"a", "_", "1">>, <<"p">>, 100)}, 2)

\* Uploads to record "a".
UpdateRequests ==
    {Request("update_qr", <<"a">>, {}, Some(n)) : n \in FileNames}

\* Deletions: by ids (none, "a", both) or of batch "p".
DeleteRequests ==
    {Request("delete_records", <<>>, ids, None) : ids \in {{}, {<<"a">>}, IDs}}
       \cup {Request("delete_folder", <<"p">>, {}, None)}

\* What arrives together: an update for worker 1 or nothing, an update or
\* a deletion for worker 2 or nothing.
StepRequests ==
    {reqs \in [Workers -> {Idle} \cup UpdateRequests \cup DeleteRequests] :
        /\ reqs[1] \in {Idle} \cup UpdateRequests
        /\ \E w \in Workers : reqs[w] # Idle}

NextSteps ==
    \/ Quiet /\ NextCreateFolder({<<"p">>}, {None}, {"none"})
    \/ Quiet /\ NextCreateQrBatch(StepInputs, {"none"})
    \/ Quiet /\ NextUpdateQr(IDs, {Some(<<"b">>)}, {None}, {None}, {None}, {"none"})
    \/ Tick
    \/ \E reqs \in StepRequests : Arrive(reqs)
    \/ \E w \in Workers : BeginUpdate(w)
    \/ \E w \in Workers : SaveUpload(w)
    \/ \E w \in Workers : CheckOld(w)
    \/ \E w \in Workers : RemoveOld(w)
    \/ \E w \in Workers : CommitUpdate(w)
    \/ \E w \in Workers : BeginDeleteRecords(w)
    \/ \E w \in Workers : BeginDeleteFolder(w)
    \/ \E w \in Workers, f \in files, fails \in BOOLEAN : AttemptRemove(w, f, fails)
    \/ \E w \in Workers : DbDelete(w)

SpecSteps == Init /\ [][NextSteps]_vars

----------------------------------------------------------------------------
(* Properties *)

Range(q) == {q[i] : i \in 1..Len(q)}

\* C1: in every state between requests, every record whose report_file is
\* not NULL names a file that exists in the upload directory.
C1_NoDanglingRef ==
    \A id \in DOMAIN records :
        records[id].report_file # None => records[id].report_file[1] \in files

\* C2: an update that carries a named file, on a record that owns an
\* attachment, leaves the previous stored file gone, the newly saved file
\* present, and the record pointing at the new file.
C2_ReplaceLeavesOneLiveFile ==
    [][\A id \in IDs, n \in FileNames, title \in Titles, note \in Notes,
         removeFile \in RemoveFlags \ {Some(<<"t", "r", "u", "e">>)} :
          ( /\ id \in DOMAIN records
            /\ Truthy(records[id].report_file)
            /\ records[id].report_file[1] \in files
            /\ UpdateQr(id, Some(n), title, note, removeFile, TRUE, {}, TRUE) )
          => ( /\ records[id].report_file[1] \notin files'
               /\ StorageName(id, now, n) \in files'
               /\ records'[id].report_file = Some(StorageName(id, now, n)) )
      ]_vars

\* C3 as stated: after a successful whole-batch deletion of b no record of b
\* exists, none of the files its records owned is left, the listing of b is
\* empty and b is not among the listed batches.
C3_BatchDeletionReclaimsAll ==
    (last.op = "delete_folder" /\ last.status = 200)
        => ( /\ RecordsOf(last.target) = {}
             /\ last.prior \cap files = {}
             /\ GetQrs(Some(last.target)) = {<<>>}
             /\ \A q \in GetFolders : last.target \notin Range(q) )

\* C3, amended: after a successful whole-batch deletion of b no record of b
\* exists, the listing of b is empty, b is not among the listed batches, and
\* of the files its records owned only those whose removal failed are left.
C3_BatchDeletionBestEffort ==
    [][\A b \in BatchIds :
          last'.op = "delete_folder" =>
          \A locked \in SUBSET files :
          DeleteFolder(b, locked, TRUE)
          => ( /\ RecordsOf(b)' = {}
               /\ GetQrs(Some(b))' = {<<>>}
               /\ \A q \in GetFolders' : b \notin Range(q)
               /\ OwnedFiles(RecordsOf(b)) \cap files' \subseteq locked
               /\ last'.status = 200 )
      ]_vars

\* A batch with a record that owned a stored file has been deleted.
C3_Witness ==
    /\ last.op = "delete_folder"
    /\ last.status = 200
    /\ last.prior # {}
    /\ last.prior \cap files = {}

True == Some(<<"t", "r", "u", "e">>)

\* The ids of a creation payload.
IdsOf(items) == {items[i].id : i \in 1..Len(items)}

\* A creation payload that repeats an id or names a stored one.
Conflicts(items) ==
    \/ IdsOf(items) \cap DOMAIN records # {}
    \/ Cardinality(IdsOf(items)) < Len(items)

\* C4: a creation payload with an id that is already stored, or with a
\* repeated id, fails and leaves the stored records as they were, on the
\* row-by-row path and on the bulk path.
C4_InsertAllOrNothing ==
    \A items \in InsInputs \ {<<>>} :
        Conflicts(items)
        => ( /\ ~CreateOutcome(items, TRUE).ok
             /\ CreateOutcome(items, TRUE).records = records )

\* A payload longer than the threshold has been refused while records
\* were stored.
C4_Witness ==
    /\ last.op = "create_qr_batch"
    /\ last.status = 500
    /\ last.target > BulkThreshold
    /\ DOMAIN records # {}

\* C5: a bulk deletion by a non-empty id set removes exactly the stored
\* records among the ids and answers with the number of rows removed.
C5_BulkDeleteReportsCount ==
    [][\A ids \in (SUBSET IDs) \ {{}} :
          DeleteRecords(ids, {}, TRUE)
          => ( /\ records' = Restrict(records, DOMAIN records \ ids)
               /\ last'.count = Some(Cardinality(DOMAIN records \cap ids)) )
      ]_vars

\* C6: a bulk deletion with no ids answers count zero and changes no
\* record, no batch and no file, whatever the environment would do.
C6_EmptyBulkDeleteIsNoop ==
    [][\A locked \in SUBSET files, dbOk \in BOOLEAN :
          DeleteRecords({}, locked, dbOk)
          => ( /\ last'.status = 200
               /\ last'.count = Some(0)
               /\ UNCHANGED <<records, batches, files>> )
      ]_vars

\* An empty bulk deletion has been answered while records and files exist.
C6_Witness ==
    /\ last.op = "delete_records"
    /\ last.target = {}
    /\ last.count = Some(0)
    /\ DOMAIN records # {}
    /\ files # {}

\* C7: an update or a report-only deletion of an id that names no record
\* answers 404 and changes no file, no record and no batch, whatever the
\* request carries.
C7_MissingIdTouchesNothing ==
    [][\A id \in IDs :
          (id \notin DOMAIN records /\ last'.op \in {"update_qr", "delete_report"})
          => \A file \in FileParts(FileNames), title \in Titles, note \in Notes,
                removeFile \in RemoveFlags :
                ( \/ UpdateQr(id, file, title, note, removeFile, TRUE, {}, TRUE)
                  \/ DeleteReport(id, {}, TRUE) )
                => ( /\ last'.status = 404
                     /\ UNCHANGED <<records, batches, files>> )
      ]_vars

\* An update with a named file has been refused with 404.
C7_Witness ==
    /\ last.op = "update_qr"
    /\ last.status = 404
    /\ Truthy(last.file)
    /\ last.target \notin DOMAIN records

\* The four report columns of a row are NULL.
ReportCleared(r) ==
    /\ r.report_file = None
    /\ r.file_name = None
    /\ r.report_title = None
    /\ r.report_note = None

\* C8: a report removal, by delete_report or by the remove flag of an
\* update, leaves the row with all four report columns NULL, or, when the
\* request fails, exactly as it was.
C8_ClearsAllFourOrNone ==
    [][\A id \in IDs :
          ( /\ id \in DOMAIN records
            /\ last'.op = "delete_report" \/ (last'.op = "update_qr" /\ last'.remove)
            /\ last'.target = id )
          => \A title \in Titles, note \in Notes, fault \in Faults :
                ( \/ UpdateQr(id, last'.file, title, note, True,
                              SaveOk(fault), Locked(fault), DbOk(fault))
                  \/ DeleteReport(id, Locked(fault), DbOk(fault)) )
                => ( /\ id \in DOMAIN records'
                     /\ \/ ReportCleared(records'[id]) /\ last'.status = 200
                        \/ records'[id] = records[id] /\ last'.status = 500 )
      ]_vars

\* The remove flag has cleared a row that owned an attachment.
C8_Witness ==
    /\ last.op = "update_qr"
    /\ last.remove
    /\ last.status = 200
    /\ Truthy(last.prior)
    /\ ReportCleared(records[last.target])

\* C9: a successful update with the remove flag leaves the four report
\* columns NULL and neither the file the row owned nor a file uploaded in
\* the same request in the upload directory, whatever else it carries.
C9_RemoveWins ==
    [][\A id \in IDs :
          ( /\ id \in DOMAIN records
            /\ last'.op = "update_qr" /\ last'.target = id
            /\ last'.remove /\ last'.status = 200 )
          => \A title \in Titles, note \in Notes :
                UpdateQr(id, last'.file, title, note, True, TRUE, {}, TRUE)
                => ( /\ ReportCleared(records'[id])
                     /\ Truthy(records[id].report_file)
                           => records[id].report_file[1] \notin files'
                     /\ Truthy(last'.file)
                           => StoredAs[id, now, last'.file[1]] \notin files' )
      ]_vars

\* The remove flag came with an upload, on a row that owned a file.
C9_Witness ==
    /\ last.op = "update_qr"
    /\ last.status = 200
    /\ last.remove
    /\ Truthy(last.file)
    /\ Truthy(last.prior)
    /\ ReportCleared(records[last.target])

\* The two insertion strategies agree on a payload, from the stored rows:
\* both fail, or both succeed with the same rows, one new row per item with
\* the item's batch and creation time and no report.
PathsAgreeOn(items) ==
    LET r == InsertRows(records, items)
        b == BulkInsert(records, items)
    IN /\ r.ok = b.ok
       /\ Outcome(records, r.table, r.ok) = Outcome(records, b.table, b.ok)
       /\ r.ok => /\ DOMAIN r.table = DOMAIN records \cup IdsOf(items)
                   /\ \A i \in 1..Len(items) :
                         r.table[items[i].id] = NewRecord(items[i])

\* A successful creation adds as many rows as the payload has items, each
\* without a report, touches no other row, and the listing of every batch
\* then shows its earlier rows and its new ones, newest first.
CreatedAndListed ==
    (last'.op = "create_qr_batch" /\ last'.status = 201 /\ records' # records)
    => LET new == DOMAIN records' \ DOMAIN records
       IN /\ Cardinality(new) = last'.target
          /\ last'.count = Some(Cardinality(new))
          /\ Restrict(records', DOMAIN records) = records
          /\ \A id \in new : ReportCleared(records'[id])
          /\ \A b \in BatchIds : \A q \in GetQrs(Some(b))' :
                /\ Range(q) = RecordsOf(b)
                                 \cup {id \in new : records'[id].batch_id = b}
                /\ \A i, j \in 1..Len(q) :
                      i < j => records'[q[i]].created_at >= records'[q[j]].created_at

\* C10: on every payload the row-by-row path and the bulk path give the
\* same stored rows and the same outcome, and after a successful creation
\* the listing by batch returns the new rows newest-first.
C10_PathsAgree ==
    /\ [](\A items \in InsInputs \ {<<>>} : PathsAgreeOn(items))
    /\ [][CreatedAndListed]_vars

\* The bulk path has stored a payload of rows with different creation times.
C10_Witness ==
    /\ last.op = "create_qr_batch"
    /\ last.status = 201
    /\ last.target > BulkThreshold
    /\ \E i, j \in DOMAIN records :
          records[i].created_at < records[j].created_at

\* What a row must look like after an update without the remove flag that
\* carried the given file part, title and note.
OnlyCarriedChanged(r, r2, file, title, note) ==
    /\ r2.batch_id = r.batch_id
    /\ r2.created_at = r.created_at
    /\ ~(file # None /\ file[1] # <<>>)
          => (r2.report_file = r.report_file /\ r2.file_name = r.file_name)
    /\ r2.report_title = (IF title # None THEN title ELSE r.report_title)
    /\ r2.report_note = (IF note # None THEN note ELSE r.report_note)

\* C11: an update without the remove flag changes only what the request
\* carries: an absent title or note keeps its value (also when a file is
\* attached), the attachment columns change only when a file is carried,
\* batch_id and created_at of the row, every other row, the set of ids and
\* the batches stay as they were.
C11_UpdateChangesOnlyCarried ==
    [][\A id \in IDs :
          ( /\ id \in DOMAIN records
            /\ last'.op = "update_qr" /\ last'.target = id
            /\ ~last'.remove )
          => \A title \in Titles, note \in Notes,
                removeFile \in RemoveFlags \ {True} :
                UpdateQr(id, last'.file, title, note, removeFile, TRUE, {}, TRUE)
                => ( /\ DOMAIN records' = DOMAIN records
                     /\ \A o \in DOMAIN records \ {id} : records'[o] = records[o]
                     /\ batches' = batches
                     /\ OnlyCarriedChanged(records[id], records'[id],
                                           last'.file, title, note) )
      ]_vars

\* A file has been attached to a row that keeps a title and a note, beside
\* another row.
C11_Witness ==
    /\ last.op = "update_qr"
    /\ last.status = 200
    /\ ~last.remove
    /\ Truthy(last.file)
    /\ records[last.target].report_file = Some(StoredAs[last.target, now, last.file[1]])
    /\ records[last.target].report_title # None
    /\ records[last.target].report_note # None
    /\ DOMAIN records # {last.target}

\* C12: in every state no stored file is referenced by two different
\* records: rows with different ids never hold the same report_file, also
\* when the uploads arrive in the same second and ids or file names contain
\* the separator of the storage name.
C12_NoSharedFile ==
    \A i, j \in DOMAIN records :
        (i # j /\ records[i].report_file # None)
        => records[i].report_file # records[j].report_file

\* C13: every row stored by a bulk creation has a batch_id that names a
\* batch existing when the creation runs; a payload naming a batch that
\* does not exist stores no row.
C13_CreatedInExistingBatch ==
    [][(last'.op = "create_qr_batch" /\ last'.status = 201)
          => \A id \in DOMAIN records' \ DOMAIN records :
                records'[id].batch_id \in DOMAIN batches
      ]_vars

\* C14: a whole-batch deletion addressed to a batch id that does not exist
\* answers not-found (404, neither success nor a server-side failure) and
\* leaves batches, records and files as they were.
C14_MissingBatchNotFound ==
    [][\A b \in BatchIds :
          (b \notin DOMAIN batches /\ last'.op = "delete_folder")
          => ( DeleteFolder(b, {}, TRUE)
               => ( /\ last'.status = 404
                    /\ UNCHANGED <<batches, records, files>> ) )
      ]_vars

\* C15: a failing removal of a stored file is swallowed in every flow: the
\* update (removal of the prior file, removal by the remove flag), the
\* report-only deletion, the bulk deletion and the batch deletion all answer
\* success and commit their database part, whichever stored files cannot be
\* removed.
C15_FileDeleteFailureSwallowed ==
    [][\A locked \in SUBSET files :
          /\ \A id \in IDs :
                ( /\ id \in DOMAIN records
                  /\ last'.op \in {"update_qr", "delete_report"}
                  /\ last'.target = id )
                => \A flag \in FaultFlags :
                      ( \/ UpdateQr(id, last'.file, None, None, flag,
                                    TRUE, locked, TRUE)
                        \/ DeleteReport(id, locked, TRUE) )
                      => ( /\ last'.status = 200
                           /\ (last'.op = "delete_report" \/ last'.remove)
                                 => ReportCleared(records'[id])
                           /\ (last'.op = "update_qr" /\ ~last'.remove
                                  /\ Truthy(last'.file))
                                 => records'[id].file_name = last'.file )
          /\ last'.op = "delete_records"
                => \A ids \in SUBSET IDs :
                      DeleteRecords(ids, locked, TRUE)
                      => ( /\ last'.status = 200
                           /\ DOMAIN records' = DOMAIN records \ ids )
          /\ last'.op = "delete_folder"
                => \A b \in BatchIds :
                      DeleteFolder(b, locked, TRUE)
                      => ( /\ last'.status = 200
                           /\ RecordsOf(b)' = {}
                           /\ b \notin DOMAIN batches' )
      ]_vars

\* C16: the database part of a whole-batch deletion is one unit: when the
\* deletion of the rows, the deletion of the batch row or the commit fails,
\* the request answers 500 and rows and batches are as before; a batch
\* deletion never leaves the rows of the batch gone with the batch row
\* kept, nor the batch row gone with rows of the batch kept.
C16_BatchDeletionAtomic ==
    [][last'.op = "delete_folder"
          => /\ \A b \in BatchIds, locked \in SUBSET files,
                   failAt \in FolderFailPoints :
                   DeleteFolderAt(b, locked, failAt)
                   => ( /\ last'.status = 500
                        /\ records' = records
                        /\ batches' = batches )
             /\ LET b == last'.target
                IN \/ /\ last'.status = 200
                      /\ \A id \in DOMAIN records' : records'[id].batch_id # b
                      /\ b \notin DOMAIN batches'
                   \/ /\ last'.status = 500
                      /\ records' = records
                      /\ batches' = batches
      ]_vars

\* The deletion of a stored batch with rows has failed and both are kept.
C16_Witness ==
    /\ last.op = "delete_folder"
    /\ last.status = 500
    /\ last.target \in DOMAIN batches
    /\ RecordsOf(last.target) # {}

\* The rows a delete handler in progress addresses.
Targeted(l) == IF l.op = "delete_records" THEN l.ids \cap DOMAIN records
               ELSE RecordsOf(l.id)

\* The step of worker w from the cleanup loop to the answer: the DELETE.
IsDbDelete(w) == inflight[w].pc = "cleanup" /\ inflight'[w].pc = "done"

\* C17: within one bulk or batch deletion the removal attempt for every
\* file the handler found comes before the DELETE of the rows and none
\* comes after it; the DELETE removes every targeted row and answers
\* success whether or not removals failed, and a handler whose cleanup loop
\* has ended can always go on to it.
C17_CleanupBeforeDelete ==
    /\ [](\A w \in Workers :
             (inflight[w].pc = "cleanup" /\ CleanupDone(inflight[w]))
             => ENABLED DbDelete(w))
    /\ [][\A w \in Workers :
             /\ IsDbDelete(w)
                   => /\ inflight[w].found \subseteq inflight[w].attempted
                      /\ inflight'[w].status = 200
                      /\ DOMAIN records' = DOMAIN records \ Targeted(inflight[w])
                      /\ (\A o \in Workers \ {w} : inflight[o].pc = "idle")
                            => OwnedFiles(Targeted(inflight[w]))
                                  \subseteq inflight[w].attempted
             /\ (inflight[w].pc = "done"
                   /\ inflight[w].op \in {"delete_records", "delete_folder"})
                   => inflight'[w] = inflight[w]
       ]_vars

\* A deletion has answered success with its rows gone although the removal
\* of a file it found failed; no other request ran.
C17_Witness ==
    \E w \in Workers :
        /\ inflight[w].op \in {"delete_records", "delete_folder"}
        /\ inflight[w].pc = "done"
        /\ inflight[w].status = 200
        /\ inflight[w].found \cap files # {}
        /\ inflight[w].attempted = inflight[w].found
        /\ DOMAIN records = {}
        /\ \A o \in Workers \ {w} : inflight[o].pc = "idle"

\* Worker w has served an update of record id that saved its upload.
Attached(w, id) ==
    /\ inflight[w].op = "update_qr"
    /\ inflight[w].pc = "done"
    /\ inflight[w].id = id
    /\ inflight[w].name # None

\* C18: when two updates that attach a file to the same record have run
\* concurrently, in any interleaving of their steps, and both have
\* answered, the report_file of the record is the storage name one of the
\* two saved and that file is in the upload directory.
C18_LastWriteWins ==
    \A id \in IDs :
        ( /\ id \in DOMAIN records
          /\ \A w \in Workers : Attached(w, id) )
        => /\ \E w \in Workers : records[id].report_file = inflight[w].name
           /\ records[id].report_file[1] \in files

\* C19: with requests one at a time and no failing step, after every
\* request the files in the upload directory are exactly the files the
\* rows name in report_file: no orphan file, no dangling reference.
C19_FilesAreReferencedFiles ==
    files = OwnedFiles(DOMAIN records)

\* The file that worker w saved for its record, and the file the row named
\* when w loaded it.
SavedFor(w) ==
    {inflight[w].name[1]}
       \cup (IF inflight[w].loaded[1].report_file # None
             THEN {inflight[w].loaded[1].report_file[1]} ELSE {})

\* C20: when an update that attaches a file to record r has run concurrently
\* with a bulk or batch deletion that covers r, in any interleaving, and
\* both have answered, then r exists and the file it names exists, or r is
\* absent and no file saved for r is left in the upload directory.
C20_UpdateVersusDelete ==
    \A u, d \in Workers :
        ( /\ inflight[u].op = "update_qr" /\ inflight[u].pc = "done"
          /\ inflight[u].name # None
          /\ inflight[d].op \in {"delete_records", "delete_folder"}
          /\ inflight[d].pc = "done"
          /\ \/ inflight[u].id \in inflight[d].ids
             \/ inflight[d].id = inflight[u].loaded[1].batch_id )
        => LET r == inflight[u].id
           IN \/ /\ r \in DOMAIN records
                 /\ records[r].report_file # None
                 /\ records[r].report_file[1] \in files
              \/ /\ r \notin DOMAIN records
                 /\ SavedFor(u) \cap files = {}

====
